---- MODULE Spec2Model ----
(***************************************************************************)
(* Model of homework.py: the fitness-tracker workout hierarchy (Training,  *)
(* Running, SportsWalking, Swimming), the InfoMessage report and the       *)
(* dispatcher read_package.                                                *)
(*                                                                         *)
(* Numbers.  The sensor values are Python ints.  The float results of the  *)
(* methods are modelled as exact rationals <<n, d>> in lowest terms with   *)
(* d > 0; IEEE-754 rounding of the individual float operations is not      *)
(* modelled, so a model value is the real number the float approximates.   *)
(* A list element is a record [kind, val]; kind "int" is a numbers.Number, *)
(* kind "str" is a value that is not.                                      *)
(***************************************************************************)
EXTENDS Integers, Sequences, FiniteSets, TLC

VARIABLES
    pc,        \* "idle": nothing called yet; "held": an object was returned; "raised": the call raised
    origin,    \* "none", "read_package" (dispatch) or "direct" (Training(...) called by the caller)
    tag,       \* workout_type passed to read_package
    data,      \* data passed to read_package
    raised,    \* exception raised by the construction call: "none", "ValueError", "TypeError"
    ctor,      \* class whose constructor call was attempted, "none" if no call was attempted
    workout,   \* the object held by the caller (its class and __dict__), NoObject if none
    ret,       \* [op, status, value]: the latest method call on workout and what it returned or raised
    reports,   \* the InfoMessage objects show_training_info returned for workout, oldest first
    calls      \* number of method calls made on workout

vars == <<pc, origin, tag, data, raised, ctor, workout, ret, reports, calls>>

----------------------------------------------------------------------------
(* Bounds of the model *)

\* Longest data list handed to read_package (one more than Swimming takes).
MaxLen == 6
\* Number of method calls made on one object.
MaxCalls == 3

----------------------------------------------------------------------------
(* Rational arithmetic standing for Python's float operators *)

Abs(n) == IF n < 0 THEN -n ELSE n

RECURSIVE GCD(_, _)
GCD(a, b) == IF b = 0 THEN a ELSE GCD(b, a % b)

\* The rational n/d (d # 0) in lowest terms with a positive denominator.
Norm(n, d) ==
    LET g == GCD(Abs(n), Abs(d))
        s == IF d < 0 THEN -1 ELSE 1
    IN  <<(s * n) \div g, Abs(d) \div g>>

Rat(n) == <<n, 1>>

RMul(a, b) == Norm(a[1] * b[1], a[2] * b[2])
RAdd(a, b) == Norm(a[1] * b[2] + b[1] * a[2], a[2] * b[2])
RSub(a, b) == Norm(a[1] * b[2] - b[1] * a[2], a[2] * b[2])
\* a / b, b # 0
RDiv(a, b) == Norm(a[1] * b[2], a[2] * b[1])
\* a // b, b # 0: the floor of the quotient, as a float with an integral value
RFloorDiv(a, b) ==
    LET q == RDiv(a, b)
    IN  Rat(q[1] \div q[2])

RLt(a, b) == a[1] * b[2] < b[1] * a[2]

----------------------------------------------------------------------------
(* Values and objects *)

Num(n) == [kind |-> "int", val |-> n]
NotNum == [kind |-> "str", val |-> 0]

\* isinstance(_, numbers.Number)
isinstance_Number(v) == v.kind = "int"

NoObject == [cls |-> "None"]
NoCall == [op |-> "none", status |-> "none", value |-> Rat(0)]

Returned(v) == [status |-> "ok", value |-> v]
Raise(e) == [status |-> e, value |-> Rat(0)]

----------------------------------------------------------------------------
(* Class attributes *)

\* Training.M_IN_KM
M_IN_KM == 1000
\* Running.MULTIPLIER, Running.SUBTRACTOR
Running_MULTIPLIER == 18
SUBTRACTOR == 20
\* Running.MINUTE_PER_HOUR and SportsWalking.MINUTE_PER_HOUR
MINUTE_PER_HOUR == 60
\* SportsWalking.DEGREE, WEIGHT_MULTIPLIER = 0.035, SQUARE_OF_SPEED_MULTIPLIER = 0.029
DEGREE == 2
WEIGHT_MULTIPLIER == <<7, 200>>
SQUARE_OF_SPEED_MULTIPLIER == <<29, 1000>>
\* Swimming.ADDENDUM = 1.1, Swimming.MULTIPLIER
ADDENDUM == <<11, 10>>
Swimming_MULTIPLIER == 2

\* LEN_STEP as looked up on an instance of cls, with the override forgotten.
LEN_STEP_NoOverride(cls) == <<13, 20>>

\* LEN_STEP as looked up on an instance of cls: 0.65 in Training, 1.38 in Swimming.
LEN_STEP(cls) == IF cls = "Swimming" THEN <<69, 50>> ELSE <<13, 20>>

\* pow(a, k), k a natural number
RECURSIVE RPow(_, _)
RPow(a, k) == IF k = 0 THEN Rat(1) ELSE RMul(a, RPow(a, k - 1))

----------------------------------------------------------------------------
(* Constructors *)

\* Number of positional arguments __init__ of cls takes besides self.
Arity(cls) == CASE cls = "SportsWalking" -> 4
                [] cls = "Swimming" -> 5
                [] OTHER -> 3

\* The instance cls(*args) with duration and weight assigned the wrong way round.
NewObject_Swapped(cls, args) ==
    LET base == [cls |-> cls, action |-> args[1].val,
                 duration |-> args[3].val, weight |-> args[2].val]
    IN  CASE cls = "SportsWalking" ->
               [cls |-> cls, action |-> base.action, duration |-> base.duration,
                weight |-> base.weight, height |-> args[4].val]
          [] cls = "Swimming" ->
               [cls |-> cls, action |-> base.action, duration |-> base.duration,
                weight |-> base.weight, length_pool |-> args[4].val,
                count_pool |-> args[5].val]
          [] OTHER -> base

\* The instance the __init__ chain of cls leaves for args of the right length:
\* Training.__init__ sets action, duration, weight; the subclasses add theirs.
NewObject(cls, args) ==
    LET base == [cls |-> cls, action |-> args[1].val,
                 duration |-> args[2].val, weight |-> args[3].val]
    IN  CASE cls = "SportsWalking" ->
               [cls |-> cls, action |-> base.action, duration |-> base.duration,
                weight |-> base.weight, height |-> args[4].val]
          [] cls = "Swimming" ->
               [cls |-> cls, action |-> base.action, duration |-> base.duration,
                weight |-> base.weight, length_pool |-> args[4].val,
                count_pool |-> args[5].val]
          [] OTHER -> base

\* cls(*args) where surplus arguments are dropped instead of rejected.
Construct_DropsSurplus(cls, args) ==
    IF Len(args) < Arity(cls)
    THEN [exc |-> "TypeError", ctor |-> cls, obj |-> NoObject]
    ELSE [exc |-> "none", ctor |-> cls, obj |-> NewObject(cls, args)]

\* The call cls(*args): Python binds the arguments to __init__'s parameters and
\* raises TypeError when their number is not the one __init__ declares.
Construct(cls, args) ==
    IF Len(args) # Arity(cls)
    THEN [exc |-> "TypeError", ctor |-> cls, obj |-> NoObject]
    ELSE [exc |-> "none", ctor |-> cls, obj |-> NewObject(cls, args)]

----------------------------------------------------------------------------
(* read_package *)

\* The table with the base class registered for "RUN".
obj_code_data_Base ==
    [SWM |-> "Swimming", RUN |-> "Training", WLK |-> "SportsWalking"]

obj_code_data ==
    [SWM |-> "Swimming", RUN |-> "Running", WLK |-> "SportsWalking"]

ValueErrorOutcome == [exc |-> "ValueError", ctor |-> "none", obj |-> NoObject]

\* read_package without the isinstance check.
read_package_TagOnly(workout_type, d) ==
    IF workout_type \in DOMAIN obj_code_data
    THEN Construct(obj_code_data[workout_type], d)
    ELSE ValueErrorOutcome

\* read_package that also rejects a zero duration.
read_package_ChecksDuration(workout_type, d) ==
    IF /\ workout_type \in DOMAIN obj_code_data
       /\ \A i \in 1..Len(d) : isinstance_Number(d[i])
       /\ (Len(d) >= 2 => d[2].val # 0)
    THEN Construct(obj_code_data[workout_type], d)
    ELSE ValueErrorOutcome

read_package(workout_type, d) ==
    IF /\ workout_type \in DOMAIN obj_code_data
       /\ \A i \in 1..Len(d) : isinstance_Number(d[i])
    THEN Construct(obj_code_data[workout_type], d)
    ELSE ValueErrorOutcome

----------------------------------------------------------------------------
(* Methods.  Each returns Returned(v) or Raise(e). *)

\* get_distance computed from the laps for a Swimming instance.
get_distance_Laps(w) ==
    IF w.cls = "Swimming"
    THEN Returned(RDiv(Rat(w.length_pool * w.count_pool), Rat(M_IN_KM)))
    ELSE Returned(RDiv(RMul(Rat(w.action), LEN_STEP(w.cls)), Rat(M_IN_KM)))

\* Training.get_distance (inherited by every subclass):
\* self.action * self.LEN_STEP / self.M_IN_KM
get_distance(w) ==
    Returned(RDiv(RMul(Rat(w.action), LEN_STEP(w.cls)), Rat(M_IN_KM)))

\* Training.get_mean_speed: self.get_distance() / self.duration
Training_get_mean_speed(w) ==
    LET dist == get_distance(w)
    IN  IF dist.status # "ok" THEN dist
        ELSE IF w.duration = 0 THEN Raise("ZeroDivisionError")
        ELSE Returned(RDiv(dist.value, Rat(w.duration)))

\* Swimming.get_mean_speed:
\* self.length_pool * self.count_pool / self.M_IN_KM / self.duration
Swimming_get_mean_speed(w) ==
    LET metres == Rat(w.length_pool * w.count_pool)
        km == RDiv(metres, Rat(M_IN_KM))
    IN  IF w.duration = 0 THEN Raise("ZeroDivisionError")
        ELSE Returned(RDiv(km, Rat(w.duration)))

\* self.get_mean_speed() as resolved on the class of w
get_mean_speed(w) ==
    IF w.cls = "Swimming" THEN Swimming_get_mean_speed(w)
    ELSE Training_get_mean_speed(w)

\* Training.get_spent_calories
Training_get_spent_calories(w) == Raise("NotImplementedError")

\* Running.get_spent_calories with the result clamped at zero.
Running_get_spent_calories_Clamped(w) ==
    LET speed == get_mean_speed(w)
    IN  IF speed.status # "ok" THEN speed
        ELSE LET v == RMul(RDiv(RMul(RSub(RMul(Rat(Running_MULTIPLIER), speed.value),
                                          Rat(SUBTRACTOR)),
                                     Rat(w.weight)),
                                Rat(M_IN_KM)),
                           Rat(w.duration * MINUTE_PER_HOUR))
             IN  Returned(IF RLt(v, Rat(0)) THEN Rat(0) ELSE v)

\* Running.get_spent_calories:
\* (MULTIPLIER * get_mean_speed() - SUBTRACTOR) * weight / M_IN_KM
\*     * (duration * MINUTE_PER_HOUR)
Running_get_spent_calories(w) ==
    LET speed == get_mean_speed(w)
    IN  IF speed.status # "ok" THEN speed
        ELSE Returned(RMul(RDiv(RMul(RSub(RMul(Rat(Running_MULTIPLIER), speed.value),
                                          Rat(SUBTRACTOR)),
                                     Rat(w.weight)),
                                Rat(M_IN_KM)),
                           Rat(w.duration * MINUTE_PER_HOUR)))

\* SportsWalking.get_spent_calories with / in place of //.
SportsWalking_get_spent_calories_TrueDiv(w) ==
    LET speed == get_mean_speed(w)
    IN  IF speed.status # "ok" THEN speed
        ELSE IF w.height = 0 THEN Raise("ZeroDivisionError")
        ELSE Returned(RMul(RAdd(RMul(WEIGHT_MULTIPLIER, Rat(w.weight)),
                                RMul(RMul(RDiv(RPow(speed.value, DEGREE),
                                               Rat(w.height)),
                                          SQUARE_OF_SPEED_MULTIPLIER),
                                     Rat(w.weight))),
                           Rat(w.duration * MINUTE_PER_HOUR)))

\* SportsWalking.get_spent_calories:
\* (WEIGHT_MULTIPLIER * weight
\*  + (pow(get_mean_speed(), DEGREE) // height) * SQUARE_OF_SPEED_MULTIPLIER * weight)
\*     * (duration * MINUTE_PER_HOUR)
SportsWalking_get_spent_calories(w) ==
    LET speed == get_mean_speed(w)
    IN  IF speed.status # "ok" THEN speed
        ELSE IF w.height = 0 THEN Raise("ZeroDivisionError")
        ELSE Returned(RMul(RAdd(RMul(WEIGHT_MULTIPLIER, Rat(w.weight)),
                                RMul(RMul(RFloorDiv(RPow(speed.value, DEGREE),
                                                    Rat(w.height)),
                                          SQUARE_OF_SPEED_MULTIPLIER),
                                     Rat(w.weight))),
                           Rat(w.duration * MINUTE_PER_HOUR)))

\* Swimming.get_spent_calories:
\* (get_mean_speed() + ADDENDUM) * MULTIPLIER * weight
Swimming_get_spent_calories(w) ==
    LET speed == get_mean_speed(w)
    IN  IF speed.status # "ok" THEN speed
        ELSE Returned(RMul(RMul(RAdd(speed.value, ADDENDUM),
                                Rat(Swimming_MULTIPLIER)),
                           Rat(w.weight)))

\* self.get_spent_calories() as resolved on the class of w
get_spent_calories(w) ==
    CASE w.cls = "Running" -> Running_get_spent_calories(w)
      [] w.cls = "SportsWalking" -> SportsWalking_get_spent_calories(w)
      [] w.cls = "Swimming" -> Swimming_get_spent_calories(w)
      [] OTHER -> Training_get_spent_calories(w)

\* InfoMessage(training_type, duration, distance, speed, calories)
InfoMessage(training_type, duration, distance, speed, calories) ==
    [training_type |-> training_type, duration |-> duration,
     distance |-> distance, speed |-> speed, calories |-> calories]

\* Training.show_training_info: the arguments of InfoMessage are evaluated
\* left to right and the first exception propagates.
show_training_info(w) ==
    LET dist == get_distance(w)
        speed == get_mean_speed(w)
        cal == get_spent_calories(w)
    IN  IF dist.status # "ok" THEN dist
        ELSE IF speed.status # "ok" THEN speed
        ELSE IF cal.status # "ok" THEN cal
        ELSE Returned(InfoMessage(w.cls, w.duration, dist.value,
                                  speed.value, cal.value))

----------------------------------------------------------------------------
(* Inputs *)

Tags == {"RUN", "WLK", "SWM", "BIKE"}

\* Sensor values tried at each position of data.
ActionVals == {-720, 0, 720, 9000, 15000, 20000}
DurationVals == {-1, 0, 1, 2}
WeightVals == {0, 75, 80}
FourthVals == {-3, 0, 13, 25, 180}
FifthVals == {0, 40}
SurplusVals == {1}

ValuesAt(i) == CASE i = 1 -> ActionVals
                 [] i = 2 -> DurationVals
                 [] i = 3 -> WeightVals
                 [] i = 4 -> FourthVals
                 [] i = 5 -> FifthVals
                 [] OTHER -> SurplusVals

ElementsAt(i) == {Num(v) : v \in ValuesAt(i)} \cup {NotNum}

RECURSIVE DataLists(_)
DataLists(n) ==
    IF n = 0 THEN {<< >>}
    ELSE {Append(d, e) : d \in DataLists(n - 1), e \in ElementsAt(n)}

AllData == UNION {DataLists(n) : n \in 0..MaxLen}

----------------------------------------------------------------------------
(* The state machine *)

Init ==
    /\ pc = "idle"
    /\ origin = "none"
    /\ tag = "none"
    /\ data = << >>
    /\ raised = "none"
    /\ ctor = "none"
    /\ workout = NoObject
    /\ ret = NoCall
    /\ reports = << >>
    /\ calls = 0

\* training = read_package(key, value)
ReadPackage ==
    /\ pc = "idle"
    /\ \E t \in Tags, d \in AllData :
         LET out == read_package(t, d)
         IN  /\ tag' = t
             /\ data' = d
             /\ origin' = "read_package"
             /\ raised' = out.exc
             /\ ctor' = out.ctor
             /\ workout' = out.obj
             /\ pc' = IF out.exc = "none" THEN "held" ELSE "raised"
    /\ UNCHANGED <<ret, reports, calls>>

\* Training(action, duration, weight) called by the caller itself
NewTraining ==
    /\ pc = "idle"
    /\ \E a \in ActionVals, h \in DurationVals, kg \in WeightVals :
         LET out == Construct("Training", <<Num(a), Num(h), Num(kg)>>)
         IN  /\ origin' = "direct"
             /\ raised' = out.exc
             /\ ctor' = out.ctor
             /\ workout' = out.obj
             /\ pc' = IF out.exc = "none" THEN "held" ELSE "raised"
    /\ UNCHANGED <<tag, data, ret, reports, calls>>

\* A method call on the held object: nothing is assigned to self.
Call(op, result) ==
    /\ pc = "held"
    /\ calls < MaxCalls
    /\ calls' = calls + 1
    /\ ret' = [op |-> op, status |-> result.status, value |-> result.value]
    /\ UNCHANGED <<pc, origin, tag, data, raised, ctor>>

GetDistance ==
    /\ Call("get_distance", get_distance(workout))
    /\ UNCHANGED <<workout, reports>>

GetMeanSpeed ==
    /\ Call("get_mean_speed", get_mean_speed(workout))
    /\ UNCHANGED <<workout, reports>>

GetSpentCalories ==
    /\ Call("get_spent_calories", get_spent_calories(workout))
    /\ UNCHANGED <<workout, reports>>

\* show_training_info that converts self.duration to minutes in place.
ShowTrainingInfo_Mutating ==
    /\ Call("show_training_info", show_training_info(workout))
    /\ reports' = IF show_training_info(workout).status = "ok"
                  THEN Append(reports, show_training_info(workout).value)
                  ELSE reports
    /\ workout' = [workout EXCEPT !.duration = @ * MINUTE_PER_HOUR]

ShowTrainingInfo ==
    /\ Call("show_training_info", show_training_info(workout))
    /\ reports' = IF show_training_info(workout).status = "ok"
                  THEN Append(reports, show_training_info(workout).value)
                  ELSE reports
    /\ UNCHANGED workout

Next ==
    \/ ReadPackage
    \/ NewTraining
    \/ GetDistance
    \/ GetMeanSpeed
    \/ GetSpentCalories
    \/ ShowTrainingInfo

Spec == Init /\ [][Next]_vars

----------------------------------------------------------------------------
(* Vocabulary of the properties *)

KnownTags == {"RUN", "WLK", "SWM"}

Dispatched == origin = "read_package"
Recognized == tag \in KnownTags
AllNumeric == \A i \in 1..Len(data) : data[i].kind = "int"

\* Number of values each kind takes, and the label of its summary.
ExpectedArity(t) == CASE t = "RUN" -> 3 [] t = "WLK" -> 4 [] t = "SWM" -> 5
ExpectedLabel(t) == CASE t = "RUN" -> "Running"
                      [] t = "WLK" -> "SportsWalking"
                      [] t = "SWM" -> "Swimming"

ExactArity == Recognized /\ Len(data) = ExpectedArity(tag)
ValidCall == Dispatched /\ Recognized /\ AllNumeric /\ ExactArity

Values(d) == [i \in 1..Len(d) |-> d[i].val]

ReturnedFrom(op) == pc = "held" /\ ret.op = op /\ ret.status = "ok"

\* C1: a call of read_package with an unrecognized tag or with a value that
\* is not numeric raises ValueError and attempts no constructor call, whatever
\* the length of the list.
C1_InvalidInputRejected ==
    (Dispatched /\ (~Recognized \/ ~AllNumeric))
        => /\ pc = "raised"
           /\ raised = "ValueError"
           /\ ctor = "none"
           /\ workout = NoObject

\* A recognized tag, a list of the wrong length holding a value that is not
\* numeric: ValueError.
C1_Witness ==
    /\ Dispatched /\ tag = "SWM" /\ Len(data) = 3
    /\ data[2] = NotNum
    /\ raised = "ValueError"

\* C2: a recognized tag with numeric values whose number differs from the
\* variant's arity fails in the constructor call with TypeError, which is not
\* the ValueError of validation, and no object is returned.
C2_ArityMismatchIsTypeError ==
    (Dispatched /\ Recognized /\ AllNumeric /\ Len(data) # ExpectedArity(tag))
        => /\ pc = "raised"
           /\ raised = "TypeError"
           /\ raised # "ValueError"
           /\ ctor = ExpectedLabel(tag)
           /\ workout = NoObject

\* Swimming called with six numeric values.
C2_Witness ==
    /\ Dispatched /\ tag = "SWM" /\ AllNumeric /\ Len(data) = 6
    /\ raised = "TypeError"

\* C3: a valid call returns the variant the tag selects, its fields are the
\* values in positional order, and every summary of it carries the label
\* "Running", "SportsWalking" or "Swimming".
C3_DispatchPositional ==
    ValidCall
        => /\ pc = "held" /\ raised = "none"
           /\ workout.cls = ExpectedLabel(tag)
           /\ workout.action = data[1].val
           /\ workout.duration = data[2].val
           /\ workout.weight = data[3].val
           /\ tag = "RUN" =>
                DOMAIN workout = {"cls", "action", "duration", "weight"}
           /\ tag = "WLK" =>
                /\ DOMAIN workout = {"cls", "action", "duration", "weight", "height"}
                /\ workout.height = data[4].val
           /\ tag = "SWM" =>
                /\ DOMAIN workout = {"cls", "action", "duration", "weight",
                                     "length_pool", "count_pool"}
                /\ workout.length_pool = data[4].val
                /\ workout.count_pool = data[5].val
           /\ \A i \in 1..Len(reports) :
                reports[i].training_type = ExpectedLabel(tag)

\* A summary of the swimming sample was produced.
C3_Witness ==
    /\ ValidCall /\ tag = "SWM" /\ Values(data) = <<720, 1, 80, 25, 40>>
    /\ Len(reports) >= 1
    /\ reports[1].training_type = "Swimming"

\* C4: NotImplementedError is never raised by get_spent_calories or
\* show_training_info on an object read_package returned; it is raised only
\* on an instance of the base class Training.
C4_NotImplementedUnreachable ==
    /\ (Dispatched /\ pc = "held") => ret.status # "NotImplementedError"
    /\ ret.status = "NotImplementedError"
         => /\ workout.cls = "Training"
            /\ origin = "direct"
            /\ ret.op \in {"get_spent_calories", "show_training_info"}

\* Calories were computed on an object read_package returned.
C4_Witness ==
    /\ Dispatched /\ tag = "RUN"
    /\ ReturnedFrom("get_spent_calories")

\* C5: a Swimming object's distance is action * 1.38 / 1000, whatever the
\* pool length and the lap count, and its mean speed is
\* length_pool * count_pool / 1000 / duration, whatever the action; for
\* Running and SportsWalking distance is action * 0.65 / 1000 and mean speed
\* equals distance / duration, also in every summary.
C5_SwimmingFormulasDiffer ==
    (Dispatched /\ pc = "held")
        => /\ (workout.cls = "Swimming" /\ ReturnedFrom("get_distance"))
                => ret.value = Norm(workout.action * 69, 50 * 1000)
           /\ (workout.cls = "Swimming" /\ ReturnedFrom("get_mean_speed"))
                => ret.value = Norm(workout.length_pool * workout.count_pool,
                                    1000 * workout.duration)
           /\ (workout.cls # "Swimming" /\ ReturnedFrom("get_distance"))
                => ret.value = Norm(workout.action * 13, 20 * 1000)
           /\ (workout.cls # "Swimming" /\ ReturnedFrom("get_mean_speed"))
                => ret.value = Norm(workout.action * 13,
                                    20 * 1000 * workout.duration)
           /\ \A i \in 1..Len(reports) :
                /\ workout.cls = "Swimming" =>
                     /\ reports[i].distance = Norm(workout.action * 69, 50 * 1000)
                     /\ reports[i].speed =
                          Norm(workout.length_pool * workout.count_pool,
                               1000 * workout.duration)
                /\ workout.cls # "Swimming" =>
                     reports[i].speed =
                         RDiv(reports[i].distance, Rat(workout.duration))

\* The summary of the swimming sample reports a speed that is not its
\* distance divided by its duration.
C5_Witness ==
    /\ ValidCall /\ tag = "SWM" /\ Values(data) = <<720, 1, 80, 25, 40>>
    /\ Len(reports) >= 1
    /\ reports[1].speed # RDiv(reports[1].distance, Rat(workout.duration))

\* What the Running formula gives for the fields of w, written out.
RunningFormula(w) ==
    LET speed == Norm(w.action * 13, 20 * 1000 * w.duration)
    IN  RMul(RDiv(RMul(RSub(RMul(Rat(18), speed), Rat(20)), Rat(w.weight)),
                  Rat(1000)),
             Rat(w.duration * 60))

RunningCase(sample) ==
    (Dispatched /\ pc = "held" /\ workout.cls = "Running"
        /\ ReturnedFrom("get_spent_calories"))
        => /\ ret.value = RunningFormula(workout)
           /\ (/\ workout.duration > 0
               /\ workout.weight > 0
               /\ RLt(RMul(Rat(18), Norm(workout.action * 13,
                                         20 * 1000 * workout.duration)),
                      Rat(20)))
                => RLt(ret.value, Rat(0))
           /\ Values(data) = <<15000, 1, 75>> => ret.value = sample

\* C6 as stated: Running calories follow the formula, are strictly negative
\* when duration > 0, weight > 0 and 18 * speed < 20, and are 722.25 for
\* RUN [15000, 1, 75].
C6_Original == RunningCase(<<2889, 4>>)

\* C6 (amended): Running calories follow the formula, are strictly negative
\* when duration > 0, weight > 0 and 18 * speed < 20, and are 699.75 for
\* RUN [15000, 1, 75].
C6_RunningCalories == RunningCase(<<2799, 4>>)

\* Calories of the running sample were computed.
C6_Witness ==
    /\ ValidCall /\ tag = "RUN" /\ Values(data) = <<15000, 1, 75>>
    /\ ReturnedFrom("get_spent_calories")
    /\ ret.value = <<2799, 4>>

\* C7: SportsWalking calories are
\* (0.035 * weight + floor(speed^2 / height) * 0.029 * weight) * (duration * 60)
\* with the quotient floored; when 0 <= speed^2 < height the speed term is 0
\* and calories are 0.035 * weight * duration * 60; WLK [9000, 1, 75, 180]
\* gives 157.5.
C7_WalkingCalories ==
    (Dispatched /\ pc = "held" /\ workout.cls = "SportsWalking"
        /\ ReturnedFrom("get_spent_calories"))
        => LET speed == Norm(workout.action * 13, 20 * 1000 * workout.duration)
               sq == RMul(speed, speed)
               q == RDiv(sq, Rat(workout.height))
               k == q[1] \div q[2]
               weightTerm == RMul(<<35, 1000>>, Rat(workout.weight))
               speedTerm == RMul(RMul(Rat(k), <<29, 1000>>), Rat(workout.weight))
           IN  /\ k * q[2] <= q[1] /\ q[1] < (k + 1) * q[2]
               /\ ret.value = RMul(RAdd(weightTerm, speedTerm),
                                   Rat(workout.duration * 60))
               /\ (~RLt(sq, Rat(0)) /\ RLt(sq, Rat(workout.height)))
                    => ret.value = RMul(weightTerm, Rat(workout.duration * 60))
               /\ Values(data) = <<9000, 1, 75, 180>> => ret.value = <<315, 2>>

\* Calories of the walking sample were computed.
C7_Witness ==
    /\ ValidCall /\ tag = "WLK" /\ Values(data) = <<9000, 1, 75, 180>>
    /\ ReturnedFrom("get_spent_calories")
    /\ ret.value = <<315, 2>>

\* C8: on every object read_package returned, action >= 0 gives a distance
\* >= 0, whatever the other fields are.
C8_DistanceNonNegative ==
    (Dispatched /\ pc = "held" /\ ret.op = "get_distance" /\ workout.action >= 0)
        => /\ ret.status = "ok"
           /\ ~RLt(ret.value, Rat(0))

\* The distance of a swimming object with a negative pool length and a
\* negative duration was computed.
C8_Witness ==
    /\ ValidCall /\ tag = "SWM" /\ workout.action > 0
    /\ workout.length_pool < 0 /\ workout.count_pool > 0 /\ workout.duration < 0
    /\ ReturnedFrom("get_distance")

\* C9: no call of get_distance, get_mean_speed, get_spent_calories or
\* show_training_info changes a field of the object, and all the reports
\* show_training_info returns for one object are equal.
C9_MethodsPure ==
    [][pc = "held"
         => /\ workout' = workout
            /\ \A i \in 1..Len(reports') : reports'[i] = reports'[1]]_vars

\* show_training_info returned twice for the same object.
C9_Witness ==
    /\ Dispatched /\ pc = "held" /\ Len(reports) >= 2
    /\ ret.op = "show_training_info"

\* C10: read_package accepts a valid call whose duration is 0 and returns the
\* object; get_distance still returns, and get_mean_speed, get_spent_calories
\* and show_training_info raise ZeroDivisionError, for all three variants.
C10_ZeroDurationAccepted ==
    (ValidCall /\ data[2].val = 0)
        => /\ pc = "held" /\ raised = "none"
           /\ workout.cls = ExpectedLabel(tag)
           /\ workout.duration = 0
           /\ ret.op = "get_distance" => ret.status = "ok"
           /\ ret.op \in {"get_mean_speed", "get_spent_calories",
                          "show_training_info"}
                => ret.status = "ZeroDivisionError"
           /\ reports = << >>

\* The summary of a swimming object with duration 0 was asked for.
C10_Witness ==
    /\ ValidCall /\ tag = "SWM" /\ workout.duration = 0
    /\ ret.op = "show_training_info"
    /\ ret.status = "ZeroDivisionError"

====
